---- MODULE Spec2Model ----
(***************************************************************************)
(* Verification model of the gridtools stencil library sources:            *)
(*   - the tridiagonal (Thomas) solver example, tridiagonal::test          *)
(*   - base_storage (indexing and element access)                          *)
(*   - iterate_domain_cuda (read paths of an accessor)                     *)
(*   - the threads of a CUDA block reading a shared IJ cache               *)
(*   - local_domain (binding of placeholders to storage pointers)          *)
(*   - the metafunctions on integer sequences and cache sequences          *)
(*   - the thread position tests of iterate_domain_cuda                    *)
(*   - once_per_block in the threads of a CUDA block                       *)
(*   - the script that runs the Python test suites                         *)
(* The specifications share the variables: Spec (the solver example),      *)
(* StorageSpec (base_storage), CudaSpec (iterate_domain_cuda), BlockSpec   *)
(* (a CUDA block), LocalSpec (local_domain), MetaSpec (metafunctions),     *)
(* DomainSpec (thread position tests), OnceSpec (once_per_block) and       *)
(* ScriptSpec (the test-runner script).                                    *)
(***************************************************************************)
EXTENDS Integers, Sequences, FiniteSets, TLC

VARIABLES pc, d1, d2, li, lj, fields, domain, grid, lifecycle, mss, kpos,
          applied, overload, result,
          st, acc,
          cu, rd,
          blk, shared, thread,
          ld,
          meta,
          itdom,
          once,
          script

testVars == <<pc, d1, d2, li, lj, fields, domain, grid, lifecycle, mss, kpos,
              applied, overload, result>>
storageVars == <<st, acc>>
cudaVars == <<cu, rd>>
blockVars == <<blk, shared, thread>>
localVars == <<ld>>
metaVars == <<meta>>
domainVars == <<itdom>>
onceVars == <<once>>
scriptVars == <<script>>
vars == <<testVars, storageVars, cudaVars, blockVars, localVars, metaVars, domainVars, onceVars, scriptVars>>

----------------------------------------------------------------------------
(* Bounds of the model *)

\* largest number of columns (d1 * d2) of the problems passed to
\* tridiagonal::test
MaxColumns == 2
\* largest value an unwritten value_list entry may hold
MaxUninit == 1

\* number of k levels: test() forces d3 = 6
D3 == 6

----------------------------------------------------------------------------
(* Exact rational arithmetic: a number is <<numerator, denominator>> in     *)
(* lowest terms with a positive denominator; NaN is the result of a         *)
(* division by zero or of a read outside a storage.                         *)

NaN == <<0, 0>>

Abs(x) == IF x < 0 THEN -x ELSE x

\* the value of Op at the value of a, at the values of a and b (the operands
\* are evaluated once)
Apply1(Op(_), a) == CHOOSE r \in {Op(x) : x \in {a}} : TRUE
Apply2(Op(_, _), a, b) == CHOOSE r \in {Op(x, y) : x \in {a}, y \in {b}} : TRUE

RECURSIVE GCD(_, _)
GCDStep(a, b) == IF b = 0 THEN a ELSE GCD(b, a % b)
GCD(a, b) == Apply2(GCDStep, a, b)

NormStep(n, d) ==
    IF d = 0 THEN NaN
    ELSE LET g == GCD(Abs(n), Abs(d))
             s == IF d < 0 THEN -1 ELSE 1
         IN <<(s * n) \div g, (s * d) \div g>>
Norm(n, d) == Apply2(NormStep, n, d)

R(n) == <<n, 1>>

SubStep(a, b) == IF a = NaN \/ b = NaN THEN NaN
                 ELSE Norm(a[1] * b[2] - b[1] * a[2], a[2] * b[2])
AddStep(a, b) == IF a = NaN \/ b = NaN THEN NaN
                 ELSE Norm(a[1] * b[2] + b[1] * a[2], a[2] * b[2])
MulStep(a, b) == IF a = NaN \/ b = NaN THEN NaN
                 ELSE Norm(a[1] * b[1], a[2] * b[2])
DivStep(a, b) == IF a = NaN \/ b = NaN THEN NaN
                 ELSE Norm(a[1] * b[2], a[2] * b[1])

RSub(a, b) == Apply2(SubStep, a, b)
RAdd(a, b) == Apply2(AddStep, a, b)
RMul(a, b) == Apply2(MulStep, a, b)
RDiv(a, b) == Apply2(DivStep, a, b)

----------------------------------------------------------------------------
(* Vertical intervals of the example *)

\* level<Splitter, Offset> is <<Splitter, Offset>>
x_internal_overlapping == [from |-> <<0, 1>>, to |-> <<1, -1>>]
x_internal == [from |-> <<0, 1>>, to |-> <<1, -2>>]
x_first == [from |-> <<0, -1>>, to |-> <<0, -1>>]
x_last == [from |-> <<1, -1>>, to |-> <<1, -1>>]
axis == [from |-> <<0, -1>>, to |-> <<1, 1>>]

IntervalNames == {"x_internal", "x_first", "x_last"}
IntervalOf(name) ==
    CASE name = "x_internal" -> x_internal
      [] name = "x_first" -> x_first
      [] name = "x_last" -> x_last

\* k index of a level: value_list[Splitter] shifted by the offset, where
\* offsets skip zero (offset -1 is the splitter's own position)
value_at(value_list, level) ==
    value_list[level[1] + 1] + (IF level[2] < 0 THEN level[2] + 1 ELSE level[2])

\* k levels an interval covers for a given value_list
IntervalLevels(value_list, name) ==
    value_at(value_list, IntervalOf(name).from) ..
        value_at(value_list, IntervalOf(name).to)

----------------------------------------------------------------------------
(* Storages, placeholders and the two stages of the example *)

FieldNames == {"out", "inf", "diag", "sup", "rhs", "solution"}

\* grid points of a storage built from meta_(d1, d2, d3)
Points(n1, n2) == (0 .. n1 - 1) \X (0 .. n2 - 1) \X (0 .. D3 - 1)

\* storage_type x(meta_, init, name): every element holds init
storage_type(n1, n2, init) == [p \in Points(n1, n2) |-> init]

\* the storages handed to the aggregator, in placeholder order:
\* p_inf = arg<0>, p_diag = arg<1>, p_sup = arg<2>, p_rhs = arg<3>, p_out = arg<4>
domain_storages == <<"inf", "diag", "sup", "rhs", "out">>

\* make_stage with p_diag() passed a second time in the place of p_sup()
stage_args_diag_for_sup == <<4, 0, 1, 1, 3>>
\* make_stage<...>(p_out(), p_inf(), p_diag(), p_sup(), p_rhs()): the arg
\* index of the placeholder at each accessor position
stage_args == <<4, 0, 1, 2, 3>>

\* arg_list of forward_thomas and of backward_thomas: the intent of the
\* accessors out, inf, diag, sup, rhs
arg_list == <<"inout", "in", "in", "inout", "inout">>

\* accessor indices declared by both functors
a_out == 0
a_inf == 1
a_diag == 2
a_sup == 3
a_rhs == 4

\* storage an accessor of a stage resolves to, through the bound domain
Bound(dom, a) == dom[stage_args[a + 1] + 1]

\* a read that takes the element of the first column
Rd_first_column(F, dom, a, p, dk) ==
    IF <<0, 0, p[3] + dk>> \in DOMAIN F[Bound(dom, a)]
    THEN F[Bound(dom, a)][<<0, 0, p[3] + dk>>]
    ELSE NaN

\* dom(accessor(0,0,dk)) read at point p
Rd(F, dom, a, p, dk) ==
    IF <<p[1], p[2], p[3] + dk>> \in DOMAIN F[Bound(dom, a)]
    THEN F[Bound(dom, a)][<<p[1], p[2], p[3] + dk>>]
    ELSE NaN

\* dom(accessor()) = v at point p
Wr(F, dom, a, p, v) ==
    IF p \in DOMAIN F[Bound(dom, a)] THEN [F EXCEPT ![Bound(dom, a)][p] = v] ELSE F

\* forward_thomas::shared_kernel with the k-1 reads taken at k
forward_shared_kernel_no_offset(F, dom, p) ==
    Apply1(LAMBDA F1 :
              Wr(F1, dom, a_rhs, p,
                 RDiv(RSub(Rd(F1, dom, a_rhs, p, 0),
                           RMul(Rd(F1, dom, a_inf, p, 0), Rd(F1, dom, a_rhs, p, 0))),
                      RSub(Rd(F1, dom, a_diag, p, 0),
                           RMul(Rd(F1, dom, a_sup, p, 0), Rd(F1, dom, a_inf, p, 0))))),
           Wr(F, dom, a_sup, p,
              RDiv(Rd(F, dom, a_sup, p, 0),
                   RSub(Rd(F, dom, a_diag, p, 0),
                        RMul(Rd(F, dom, a_sup, p, 0), Rd(F, dom, a_inf, p, 0))))))

\* forward_thomas::shared_kernel, first F1 and then the result:
\*   sup = sup / (diag - sup(z-1) * inf)
\*   rhs = (rhs - inf * rhs(z-1)) / (diag - sup(z-1) * inf)
forward_shared_kernel(F, dom, p) ==
    Apply1(LAMBDA F1 :
              Wr(F1, dom, a_rhs, p,
                 RDiv(RSub(Rd(F1, dom, a_rhs, p, 0),
                           RMul(Rd(F1, dom, a_inf, p, 0), Rd(F1, dom, a_rhs, p, -1))),
                      RSub(Rd(F1, dom, a_diag, p, 0),
                           RMul(Rd(F1, dom, a_sup, p, -1), Rd(F1, dom, a_inf, p, 0))))),
           Wr(F, dom, a_sup, p,
              RDiv(Rd(F, dom, a_sup, p, 0),
                   RSub(Rd(F, dom, a_diag, p, 0),
                        RMul(Rd(F, dom, a_sup, p, -1), Rd(F, dom, a_inf, p, 0))))))

\* forward_thomas::Do with the shared kernel in the x_first overload too
forward_thomas_shared_at_first(interval, F, dom, p) ==
    forward_shared_kernel(F, dom, p)

\* forward_thomas::Do(dom, interval): the x_first overload is
\*   sup = sup / diag;  rhs = rhs / diag
forward_thomas(interval, F, dom, p) ==
    IF interval = "x_first"
    THEN Apply1(LAMBDA F1 :
                   Wr(F1, dom, a_rhs, p,
                      RDiv(Rd(F1, dom, a_rhs, p, 0), Rd(F1, dom, a_diag, p, 0))),
                Wr(F, dom, a_sup, p,
                   RDiv(Rd(F, dom, a_sup, p, 0), Rd(F, dom, a_diag, p, 0))))
    ELSE forward_shared_kernel(F, dom, p)

\* backward_thomas::shared_kernel: out = rhs - sup * out(0,0,1)
backward_shared_kernel(F, dom, p) ==
    Wr(F, dom, a_out, p,
       RSub(Rd(F, dom, a_rhs, p, 0),
            RMul(Rd(F, dom, a_sup, p, 0), Rd(F, dom, a_out, p, 1))))

\* backward_thomas::Do(dom, interval)
backward_thomas(interval, F, dom, p) ==
    IF interval = "x_last"
    THEN Wr(F, dom, a_out, p, Rd(F, dom, a_rhs, p, 0))
    ELSE backward_shared_kernel(F, dom, p)

\* the multistages handed to make_computation, in declaration order
multistages_swapped ==
    << [execute |-> "backward", stage |-> "backward_thomas"],
       [execute |-> "forward", stage |-> "forward_thomas"] >>
multistages_both_forward ==
    << [execute |-> "forward", stage |-> "forward_thomas"],
       [execute |-> "forward", stage |-> "backward_thomas"] >>
multistages ==
    << [execute |-> "forward", stage |-> "forward_thomas"],
       [execute |-> "backward", stage |-> "backward_thomas"] >>

NumMss == Len(multistages)

\* application of the Do overload of a stage
Do(stage, interval, F, dom, p) ==
    IF stage = "forward_thomas" THEN forward_thomas(interval, F, dom, p)
    ELSE backward_thomas(interval, F, dom, p)

\* the vertical offsets of the accessors a Do overload evaluates: z(-1) in
\* forward_thomas::shared_kernel, (0,0,1) in backward_thomas::shared_kernel
ReadOffsets(stage, interval) ==
    IF stage = "forward_thomas"
    THEN IF interval = "x_first" THEN {0} ELSE {-1, 0}
    ELSE IF interval = "x_last" THEN {0} ELSE {0, 1}

----------------------------------------------------------------------------
(* tridiagonal::test(d1, d2, d3): the statements of the test in program     *)
(* order; pc names the statement to execute next.                           *)

test_body_run_before_steady ==
    << "storages", "rhs_init", "domain", "grid", "value_list_0", "value_list_1",
       "make_computation", "ready", "run", "steady", "finalize", "verify",
       "done" >>
test_body_late_value_list ==
    << "storages", "rhs_init", "domain", "grid", "value_list_0",
       "make_computation", "ready", "steady", "value_list_1", "run", "finalize",
       "verify", "done" >>
test_body ==
    << "storages", "rhs_init", "domain", "grid", "value_list_0", "value_list_1",
       "make_computation", "ready", "steady", "run", "finalize", "verify",
       "done" >>

\* position of a statement in the test
Pos(label) == CHOOSE n \in 1 .. Len(test_body) : test_body[n] = label

\* statement following a statement
Succ(label) == test_body[Pos(label) + 1]

\* uint_t di[5] = {0, 0, 0, d1 - 1, d1}: halos, first, last, length
grid_bounds_short(n) == <<0, 0, 0, n - 2, n>>
grid_bounds(n) == <<0, 0, 0, n - 1, n>>

\* horizontal points the executor iterates: first .. last of di and dj
Columns(g) == (g.di[3] .. g.di[4]) \X (g.dj[3] .. g.dj[4])

\* Do overloads of a stage that own level k
Matching(g, k) == {n \in IntervalNames : k \in IntervalLevels(g.value_list, n)}

\* k levels the executor loops over: those of the axis that a Do overload owns
KLevels(g) ==
    {k \in value_at(g.value_list, axis.from) .. value_at(g.value_list, axis.to) :
        Matching(g, k) # {}}

\* the n-th level (n = 0, 1, ...) in the iteration order of a multistage:
\* ascending under execute<forward>, descending under execute<backward>
NthLevel(S, execute, n) ==
    IF execute = "forward"
    THEN CHOOSE k \in S : Cardinality({m \in S : m < k}) = n
    ELSE CHOOSE k \in S : Cardinality({m \in S : m > k}) = n

\* the columns in the order of the sequential loops over i and j
ColumnOrder(g) ==
    [n \in 1 .. Cardinality(Columns(g)) |->
        CHOOSE c \in Columns(g) :
            Cardinality({b \in Columns(g) :
                            b[1] < c[1] \/ (b[1] = c[1] /\ b[2] < c[2])}) = n - 1]

\* sequential execution of multistage m on column c, from its n-th level on
RECURSIVE SequentialLevels(_, _, _, _, _, _)
SequentialLevels(F, dom, g, m, c, n) ==
    IF n >= Cardinality(KLevels(g)) THEN F
    ELSE LET k == NthLevel(KLevels(g), multistages[m].execute, n)
         IN Apply1(LAMBDA G : SequentialLevels(G, dom, g, m, c, n + 1),
                   Do(multistages[m].stage, CHOOSE interval \in Matching(g, k) : TRUE,
                      F, dom, <<c[1], c[2], k>>))

\* sequential execution of multistage m, from the n-th column on
RECURSIVE SequentialColumns(_, _, _, _, _)
SequentialColumns(F, dom, g, m, n) ==
    IF n > Cardinality(Columns(g)) THEN F
    ELSE Apply1(LAMBDA G : SequentialColumns(G, dom, g, m, n + 1),
                SequentialLevels(F, dom, g, m, ColumnOrder(g)[n], 0))

\* sequential execution of the computation, from multistage m on
RECURSIVE SequentialRun(_, _, _, _)
SequentialRun(F, dom, g, m) ==
    IF m > NumMss THEN F
    ELSE Apply1(LAMBDA G : SequentialRun(G, dom, g, m + 1),
                SequentialColumns(F, dom, g, m, 1))

\* number of times a stage was applied at a point
Count(ap, s, p) == IF <<s, p>> \in DOMAIN ap THEN ap[<<s, p>>] ELSE 0

\* verifier::verify(grid, solution, out): equality over the grid
verify(g, F) ==
    \A c \in Columns(g) : \A k \in KLevels(g) :
        LET p == <<c[1], c[2], k>>
        IN /\ p \in DOMAIN F["out"]
           /\ F["out"][p] = F["solution"][p]

NoFields == [n \in FieldNames |-> <<>>]
NoGrid == [di |-> <<>>, dj |-> <<>>, value_list |-> <<>>]

TestInit ==
    /\ pc = test_body[1]
    /\ d1 \in 1 .. MaxColumns
    /\ d2 \in 1 .. MaxColumns
    /\ d1 * d2 <= MaxColumns
    /\ li = 0
    /\ lj = 0
    /\ fields = NoFields
    /\ domain = <<>>
    /\ grid = NoGrid
    /\ lifecycle = "None"
    /\ mss = 0
    /\ kpos = <<>>
    /\ applied = <<>>
    /\ overload = <<>>
    /\ result = "unset"

TestIdle ==
    /\ pc = "idle"
    /\ d1 = 0
    /\ d2 = 0
    /\ li = 0
    /\ lj = 0
    /\ fields = NoFields
    /\ domain = <<>>
    /\ grid = NoGrid
    /\ lifecycle = "None"
    /\ mss = 0
    /\ kpos = <<>>
    /\ applied = <<>>
    /\ overload = <<>>
    /\ result = "unset"

\* storage_type out(meta_, 0.), inf(-1.), diag(3.), sup(1.), rhs(3.), solution(1.)
ConstructStorages ==
    /\ pc = "storages"
    /\ fields' = [n \in FieldNames |->
                    storage_type(d1, d2,
                        CASE n = "out" -> R(0)
                          [] n = "inf" -> R(-1)
                          [] n = "diag" -> R(3)
                          [] n = "sup" -> R(1)
                          [] n = "rhs" -> R(3)
                          [] n = "solution" -> R(1))]
    /\ li' = 0
    /\ lj' = 0
    /\ pc' = Succ(pc)
    /\ UNCHANGED <<d1, d2, domain, grid, lifecycle, mss, kpos, applied, overload, result>>

\* one iteration of the loops: rhs(i,j,0) = 4.; rhs(i,j,5) = 2.;
InitRhs ==
    /\ pc = "rhs_init"
    /\ li < d1
    /\ fields' = [fields EXCEPT !["rhs"] =
                    [p \in DOMAIN @ |->
                        IF p = <<li, lj, 0>> THEN R(4)
                        ELSE IF p = <<li, lj, 5>> THEN R(2)
                        ELSE @[p]]]
    /\ IF lj + 1 < d2
       THEN lj' = lj + 1 /\ li' = li
       ELSE lj' = 0 /\ li' = li + 1
    /\ UNCHANGED <<pc, d1, d2, domain, grid, lifecycle, mss, kpos, applied, overload, result>>

\* exit of the loops
InitRhsDone ==
    /\ pc = "rhs_init"
    /\ li >= d1
    /\ pc' = Succ(pc)
    /\ UNCHANGED <<d1, d2, li, lj, fields, domain, grid, lifecycle, mss, kpos, applied, overload, result>>

\* aggregator_type domain(make_vector(&inf, &diag, &sup, &rhs, &out))
BindDomain ==
    /\ pc = "domain"
    /\ domain' = domain_storages
    /\ pc' = Succ(pc)
    /\ UNCHANGED <<d1, d2, li, lj, fields, grid, lifecycle, mss, kpos, applied, overload, result>>

\* grid<axis> grid(di, dj): the constructor leaves value_list unwritten
ConstructGrid ==
    /\ pc = "grid"
    /\ \E v \in [1 .. 2 -> 0 .. MaxUninit] :
          grid' = [di |-> grid_bounds(d1), dj |-> grid_bounds(d2), value_list |-> v]
    /\ pc' = Succ(pc)
    /\ UNCHANGED <<d1, d2, li, lj, fields, domain, lifecycle, mss, kpos, applied, overload, result>>

\* grid.value_list[0] = 0
SetValueList0 ==
    /\ pc = "value_list_0"
    /\ grid' = [grid EXCEPT !.value_list[1] = 0]
    /\ pc' = Succ(pc)
    /\ UNCHANGED <<d1, d2, li, lj, fields, domain, lifecycle, mss, kpos, applied, overload, result>>

\* grid.value_list[1] = d3 - 1
SetValueList1 ==
    /\ pc = "value_list_1"
    /\ grid' = [grid EXCEPT !.value_list[2] = D3 - 1]
    /\ pc' = Succ(pc)
    /\ UNCHANGED <<d1, d2, li, lj, fields, domain, lifecycle, mss, kpos, applied, overload, result>>

\* solver = make_computation<BACKEND>(domain, grid, multistage, multistage)
MakeComputation ==
    /\ pc = "make_computation"
    /\ lifecycle' = "Uninitialized"
    /\ pc' = Succ(pc)
    /\ UNCHANGED <<d1, d2, li, lj, fields, domain, grid, mss, kpos, applied, overload, result>>

\* solver->ready()
Ready ==
    /\ pc = "ready"
    /\ lifecycle' = "Ready"
    /\ pc' = Succ(pc)
    /\ UNCHANGED <<d1, d2, li, lj, fields, domain, grid, mss, kpos, applied, overload, result>>

\* solver->steady()
Steady ==
    /\ pc = "steady"
    /\ lifecycle' = "Steady"
    /\ pc' = Succ(pc)
    /\ UNCHANGED <<d1, d2, li, lj, fields, domain, grid, mss, kpos, applied, overload, result>>

\* solver->run(): entry, the first multistage is started
RunBegin ==
    /\ pc = "run"
    /\ mss = 0
    /\ lifecycle' = "Running"
    /\ mss' = 1
    /\ kpos' = [c \in Columns(grid) |-> 0]
    /\ UNCHANGED <<pc, d1, d2, li, lj, fields, domain, grid, applied, overload, result>>

\* solver->run(): the stage of the current multistage is applied at the next
\* level of one column
ApplyStage(c) ==
    /\ pc = "run"
    /\ mss \in 1 .. NumMss
    /\ kpos[c] < Cardinality(KLevels(grid))
    /\ \E levels \in {KLevels(grid)} :
       \E k \in {NthLevel(levels, multistages[mss].execute, kpos[c])} :
       \E interval \in Matching(grid, k) :
       \E F \in {Do(multistages[mss].stage, interval, fields, domain, <<c[1], c[2], k>>)} :
            /\ fields' = F
            /\ applied' = (<<multistages[mss].stage, <<c[1], c[2], k>>>> :>
                              Count(applied, multistages[mss].stage, <<c[1], c[2], k>>) + 1)
                          @@ applied
            /\ overload' = (<<multistages[mss].stage, <<c[1], c[2], k>>>> :> interval)
                           @@ overload
    /\ kpos' = [kpos EXCEPT ![c] = @ + 1]
    /\ UNCHANGED <<pc, d1, d2, li, lj, domain, grid, lifecycle, mss, result>>

\* solver->run(): every column of the current multistage is finished, the
\* next multistage is started
NextMultistage ==
    /\ pc = "run"
    /\ mss \in 1 .. NumMss
    /\ \A c \in DOMAIN kpos : kpos[c] >= Cardinality(KLevels(grid))
    /\ mss' = mss + 1
    /\ kpos' = [c \in DOMAIN kpos |-> 0]
    /\ UNCHANGED <<pc, d1, d2, li, lj, fields, domain, grid, lifecycle, applied, overload, result>>

\* solver->run(): return to the test
RunReturn ==
    /\ pc = "run"
    /\ mss = NumMss + 1
    /\ pc' = Succ(pc)
    /\ UNCHANGED <<d1, d2, li, lj, fields, domain, grid, lifecycle, mss, kpos, applied, overload, result>>

\* solver->finalize()
Finalize ==
    /\ pc = "finalize"
    /\ lifecycle' = "Finalized"
    /\ pc' = Succ(pc)
    /\ UNCHANGED <<d1, d2, li, lj, fields, domain, grid, mss, kpos, applied, overload, result>>

\* bool result = verif.verify(grid, solution, out); return result
Verify ==
    /\ pc = "verify"
    /\ result' = IF verify(grid, fields) THEN "true" ELSE "false"
    /\ pc' = Succ(pc)
    /\ UNCHANGED <<d1, d2, li, lj, fields, domain, grid, lifecycle, mss, kpos, applied, overload>>

TestNext ==
    \/ ConstructStorages
    \/ InitRhs
    \/ InitRhsDone
    \/ BindDomain
    \/ ConstructGrid
    \/ SetValueList0
    \/ SetValueList1
    \/ MakeComputation
    \/ Ready
    \/ Steady
    \/ RunBegin
    \/ \E c \in DOMAIN kpos : ApplyStage(c)
    \/ NextMultistage
    \/ RunReturn
    \/ Finalize
    \/ Verify

----------------------------------------------------------------------------
(* base_storage<Backend, ValueType, Layout, IsTemporary>                    *)

\* largest dimension of a storage
MaxDim == 2
\* largest coordinate passed to an access
MaxCoord == 3

FIELDS_DIMENSION == 3

\* layout_map<I0, I1, I2> is <<I0, I1, I2>>
Layouts == {l \in [1 .. FIELDS_DIMENSION -> 0 .. FIELDS_DIMENSION - 1] :
               \A a, b \in 1 .. FIELDS_DIMENSION : a # b => l[a] # l[b]}

\* layout::get<I>(): the I-th entry of the layout vector
get(layout, I) == layout[I + 1]

\* layout::pos_<I>: the position of I in the layout vector
pos_(layout, I) == CHOOSE n \in 0 .. FIELDS_DIMENSION - 1 : layout[n + 1] = I

\* layout::find<I>(a, b, c): the element at the position of I in the layout
find(layout, I, t) == t[pos_(layout, I) + 1]

\* modulus(a, b) on unsigned operands
modulus(a, b) == a % b

\* what a read of str[n] yields: the entry, or any value past the array
StrideAt(str, n) == IF n < FIELDS_DIMENSION THEN {str[n + 1]} ELSE 0 .. MaxUninit

\* base_storage(dim1, dim2, dim3, init, name): m_strides and the buffer length
base_storage(layout, dims, temp, ndebug) ==
    [ layout |-> layout,
      IsTemporary |-> temp,
      NDEBUG |-> ndebug,
      dims |-> dims,
      m_data |-> dims[1] * dims[2] * dims[3],
      m_strides |-> << dims[1] * dims[2] * dims[3],
                       dims[get(layout, 2) + 1] * dims[get(layout, 1) + 1],
                       dims[get(layout, 2) + 1] >> ]

\* size()
size(s) == s.m_strides[1]

\* dims_coordwise<Coordinate>(str): the values the expression can yield;
\* 0 stands for a division by zero
dims_coordwise(layout, C, str) ==
    IF pos_(layout, C) = FIELDS_DIMENSION - 1
    THEN {str[FIELDS_DIMENSION]}
    ELSE {IF d = 0 THEN 0 ELSE find(layout, C, str) \div d :
             d \in StrideAt(str, get(layout, C) + 1)}

\* _index(i, j, k): the outcomes of a call; ok = FALSE when the call does not
\* return (assert(false) in a build without NDEBUG, or a division by zero)
_index(s, i, j, k) ==
    LET t == <<i, j, k>>
        l == s.layout
        m == s.m_strides
    IN IF s.IsTemporary
       THEN IF ~s.NDEBUG
            THEN {[ok |-> FALSE, index |-> 0]}
            ELSE {IF a = 0 \/ b = 0 \/ c = 0
                  THEN [ok |-> FALSE, index |-> 0]
                  ELSE [ok |-> TRUE,
                        index |-> m[2] * modulus(find(l, 0, t), a)
                                  + m[3] * modulus(find(l, 1, t), b)
                                  + modulus(find(l, 2, t), c)] :
                     a \in dims_coordwise(l, 0, m),
                     b \in dims_coordwise(l, 1, m),
                     c \in dims_coordwise(l, 2, m)}
       ELSE {[ok |-> TRUE,
              index |-> m[2] * find(l, 0, t) + m[3] * find(l, 1, t) + find(l, 2, t)]}

\* operator()(i, j, k): assertion(_index(i,j,k) < m_strides[0]), then the
\* element m_data[_index(i,j,k)]
element(s, i, j, k) ==
    {IF ~o.ok THEN [outcome |-> "aborted", index |-> 0]
     ELSE IF ~(o.index < s.m_strides[1]) THEN [outcome |-> "asserted", index |-> o.index]
     ELSE [outcome |-> "element", index |-> o.index] :
        o \in _index(s, i, j, k)}

NoAccess == [op |-> "none", i |-> 0, j |-> 0, k |-> 0, outcome |-> "none", index |-> 0]

StorageInit ==
    /\ \E layout \in Layouts, dims \in [1 .. FIELDS_DIMENSION -> 1 .. MaxDim],
          temp \in BOOLEAN, ndebug \in BOOLEAN :
          st = base_storage(layout, dims, temp, ndebug)
    /\ acc = NoAccess

StorageIdle ==
    /\ st = "none"
    /\ acc = NoAccess

\* a call of operator()(i, j, k); the calls do not change the storage, one
\* call per behaviour covers them
Access(i, j, k) ==
    /\ acc.op = "none"
    /\ \E e \in element(st, i, j, k) :
          acc' = [op |-> "operator()", i |-> i, j |-> j, k |-> k,
                  outcome |-> e.outcome, index |-> e.index]
    /\ UNCHANGED st

\* a call of _index(i, j, k)
Index(i, j, k) ==
    /\ acc.op = "none"
    /\ \E o \in _index(st, i, j, k) :
          acc' = [op |-> "_index", i |-> i, j |-> j, k |-> k,
                  outcome |-> IF o.ok THEN "returned" ELSE "aborted",
                  index |-> o.index]
    /\ UNCHANGED st

StorageNext ==
    \/ \E i, j, k \in 0 .. MaxCoord : Access(i, j, k)
    \/ \E i, j, k \in 0 .. MaxCoord : Index(i, j, k)

----------------------------------------------------------------------------
(* iterate_domain_cuda: the read paths of an accessor                       *)

\* number of accessors of the stage
NumAccessors == 2
\* number of placeholders of the computation
NumArgs == 2
\* highest address of the device memory
MaxAddr == 1

Accessors == 0 .. NumAccessors - 1
Args == 0 .. NumArgs - 1

\* compute capabilities the kernel is built for
Archs == {300, 350}

\* accessor_points_to_readonly_arg<Accessor>: the arg at the accessor's
\* position of the local domain is in readonly_args_indices_t
accessor_points_to_readonly_arg(c, a) == c.esf_args[a + 1] \in c.readonly_args_indices

\* accessor_read_from_texture<Accessor> with the bypass test not negated
accessor_read_from_texture_bypassed(c, a) ==
    /\ accessor_points_to_readonly_arg(c, a)
    /\ a \in c.bypass_caches_set
    /\ c.is_arithmetic[a + 1]

\* accessor_read_from_texture<Accessor>
accessor_read_from_texture(c, a) ==
    /\ accessor_points_to_readonly_arg(c, a)
    /\ a \notin c.bypass_caches_set
    /\ c.is_arithmetic[a + 1]

\* __ldg(address)
ldg(c, address) == c.memory[address]

\* super::get_gmem_value<ReturnType>(storage_pointer, pointer_offset)
get_gmem_value(c, storage_pointer, pointer_offset) ==
    c.memory[storage_pointer + pointer_offset]

\* get_value_impl<ReturnType, Accessor>(storage_pointer, pointer_offset):
\* the overload chosen for the accessor, the path it reads through and the
\* value it returns
get_value_impl(c, a, storage_pointer, pointer_offset) ==
    IF accessor_read_from_texture(c, a)
    THEN IF c.CUDA_ARCH >= 350
         THEN [overload |-> "readonly", path |-> "ldg",
               value |-> ldg(c, storage_pointer + pointer_offset)]
         ELSE [overload |-> "readonly", path |-> "gmem",
               value |-> get_gmem_value(c, storage_pointer, pointer_offset)]
    ELSE [overload |-> "general", path |-> "gmem",
          value |-> get_gmem_value(c, storage_pointer, pointer_offset)]

NoRead == [accessor |-> 0, storage_pointer |-> 0, pointer_offset |-> 0,
           overload |-> "none", path |-> "none", value |-> 0]

CudaInit ==
    /\ \E esf \in [1 .. NumAccessors -> Args], ro \in SUBSET Args,
          by \in SUBSET Accessors, ar \in [1 .. NumAccessors -> BOOLEAN],
          arch \in Archs, mem \in [0 .. MaxAddr -> 0 .. 1] :
          cu = [esf_args |-> esf, readonly_args_indices |-> ro,
                bypass_caches_set |-> by, is_arithmetic |-> ar,
                CUDA_ARCH |-> arch, memory |-> mem]
    /\ rd = NoRead

CudaIdle ==
    /\ cu = "none"
    /\ rd = NoRead

\* a read of the value of accessor a at storage_pointer + pointer_offset;
\* the reads do not change the iterate domain, one read per behaviour covers
\* them
GetValue(a, storage_pointer, pointer_offset) ==
    /\ rd.overload = "none"
    /\ storage_pointer + pointer_offset <= MaxAddr
    /\ LET r == get_value_impl(cu, a, storage_pointer, pointer_offset)
       IN rd' = [accessor |-> a, storage_pointer |-> storage_pointer,
                 pointer_offset |-> pointer_offset, overload |-> r.overload,
                 path |-> r.path, value |-> r.value]
    /\ UNCHANGED cu

CudaNext ==
    \E a \in Accessors, sp \in 0 .. MaxAddr, off \in 0 .. MaxAddr :
        GetValue(a, sp, off)

----------------------------------------------------------------------------
(* The threads of a CUDA block: a stage fills the shared IJ caches, the     *)
(* next stage reads them through get_cache_value_impl                       *)

\* threads of the block along i
BlockSizeI == 2
\* threads of the block along j
BlockSizeJ == 1

\* threadIdx of the threads of the block
Threads == (0 .. BlockSizeI - 1) \X (0 .. BlockSizeJ - 1)

\* offsets of an accessor in the horizontal plane
Offsets == {<<-1, 0>>, <<0, 0>>, <<1, 0>>}

\* initialize_impl with every thread placed at i = 0
initialize_impl_at_zero(threadIdx) == <<0, threadIdx[2]>>

\* initialize_impl<0>(), initialize_impl<1>(): the position of the thread
\* within the block
initialize_impl(threadIdx) == <<threadIdx[1], threadIdx[2]>>

\* the data pointer of an accessor: the fields lie one after the other in
\* the device memory, one element per thread position
get_data_pointer(a) == a * (BlockSizeI * BlockSizeJ)

\* the pointer offset of a position of the block
PointerOffset(pos) == pos[1] + BlockSizeI * pos[2]

\* the value the filling stage computes for accessor a at position pos;
\* the device memory holds its negation
StageValue(a, pos) == get_data_pointer(a) + PointerOffset(pos) + 1

\* the device memory of the fields of the accessors
DeviceMemory ==
    [address \in 0 .. NumAccessors * BlockSizeI * BlockSizeJ - 1 |-> 0 - (address + 1)]

\* an element of a cache no thread has written yet
Unfilled == 0

\* ij_cache.at(thread_pos, offsets): the element at the position of the
\* thread shifted by the offsets of the accessor
at(cache, thread_pos, offsets) ==
    cache[<<thread_pos[1] + offsets[1], thread_pos[2] + offsets[2]>>]

\* super::get_value<Accessor, void *>(accessor, data_pointer): the value at
\* the position of the accessor, read by get_value_impl
get_value(c, a, data_pointer, thread_pos, offsets) ==
    get_value_impl(c, a, data_pointer,
                   PointerOffset(<<thread_pos[1] + offsets[1], thread_pos[2] + offsets[2]>>))

\* get_cache_value_impl with the two overloads exchanged
get_cache_value_impl_exchanged(c, sh, a, thread_pos, offsets) ==
    IF a \in c.bypass_caches_set
    THEN [path |-> "ij_cache", value |-> at(sh.ij_cache[a], thread_pos, offsets)]
    ELSE LET r == get_value(c, a, get_data_pointer(a), thread_pos, offsets)
         IN [path |-> r.path, value |-> r.value]

\* get_cache_value_impl<ReturnType, Accessor>(accessor): the overload for
\* accessors outside bypass_caches_set_t reads the IJ cache of the shared
\* iterate domain, the overload for accessors in the set reads the memory
get_cache_value_impl(c, sh, a, thread_pos, offsets) ==
    IF a \notin c.bypass_caches_set
    THEN [path |-> "ij_cache", value |-> at(sh.ij_cache[a], thread_pos, offsets)]
    ELSE LET r == get_value(c, a, get_data_pointer(a), thread_pos, offsets)
         IN [path |-> r.path, value |-> r.value]

\* the steps of a thread of the block: fill phase, barrier, compute phase
thread_body == <<"fill", "barrier", "compute", "done">>

\* the step after the step at position n of the thread
ThreadSucc(label) ==
    thread_body[(CHOOSE n \in 1 .. Len(thread_body) - 1 : thread_body[n] = label) + 1]

NoCacheRead == [accessor |-> 0, offsets |-> <<0, 0>>, path |-> "none", value |-> 0,
                filled |-> {}]

BlockInit ==
    /\ \E by \in SUBSET Accessors, ro \in SUBSET Args :
          blk = [esf_args |-> [n \in 1 .. NumAccessors |-> (n - 1) % NumArgs],
                 readonly_args_indices |-> ro,
                 bypass_caches_set |-> by,
                 is_arithmetic |-> [n \in 1 .. NumAccessors |-> TRUE],
                 CUDA_ARCH |-> 350,
                 memory |-> DeviceMemory]
    /\ shared = [ij_cache |-> [a \in Accessors |-> [pos \in Threads |-> Unfilled]]]
    /\ thread = [t \in Threads |->
                    [pc |-> thread_body[1], m_thread_pos |-> initialize_impl(t),
                     read |-> NoCacheRead]]

BlockIdle ==
    /\ blk = "none"
    /\ shared = "none"
    /\ thread = <<>>

\* fill phase of thread t: it writes its element of every IJ cache
Fill(t) ==
    /\ thread[t].pc = "fill"
    /\ shared' = [ij_cache |->
                    [a \in Accessors |->
                        [shared.ij_cache[a] EXCEPT ![thread[t].m_thread_pos] =
                            StageValue(a, thread[t].m_thread_pos)]]]
    /\ thread' = [thread EXCEPT ![t].pc = ThreadSucc("fill")]
    /\ UNCHANGED blk

\* the barrier: thread t passes once every thread of the block has arrived
SyncThreads(t) ==
    /\ thread[t].pc = "barrier"
    /\ \A u \in Threads : thread[u].pc # "fill"
    /\ thread' = [thread EXCEPT ![t].pc = ThreadSucc("barrier")]
    /\ UNCHANGED <<blk, shared>>

\* compute phase of thread t: a read of accessor a at the given offsets
\* (inside the tile) through get_cache_value_impl
Compute(t, a, offsets) ==
    /\ thread[t].pc = "compute"
    /\ <<thread[t].m_thread_pos[1] + offsets[1], thread[t].m_thread_pos[2] + offsets[2]>> \in Threads
    /\ LET r == get_cache_value_impl(blk, shared, a, thread[t].m_thread_pos, offsets)
       IN thread' = [thread EXCEPT
                        ![t].pc = "done",
                        ![t].read = [accessor |-> a, offsets |-> offsets,
                                     path |-> r.path, value |-> r.value,
                                     filled |-> {u \in Threads : thread[u].pc # "fill"}]]
    /\ UNCHANGED <<blk, shared>>

BlockNext ==
    \/ \E t \in Threads : Fill(t)
    \/ \E t \in Threads : SyncThreads(t)
    \/ \E t \in Threads, a \in Accessors, offsets \in Offsets : Compute(t, a, offsets)

----------------------------------------------------------------------------
(* local_domain: the view of one stage on the storages of the computation   *)

\* largest number of placeholders of a stage
MaxEsfArgs == 2

\* the meta data type of the storage of the placeholder with index i
MetaOf(i) == i % 2

\* the argument lists init is called with: the entry at index i points to
\* a storage, whose gpu_object_ptr is null until the storage is cloned
ActualArgLists ==
    {[i \in Args |-> [address |-> base + i,
                      gpu_object_ptr |-> IF cloned THEN 100 + base + i ELSE 0]] :
        base \in {10, 20}, cloned \in BOOLEAN}

\* the meta data handed to init, by meta data type
ActualMetaData(actual_args) ==
    [m \in {MetaOf(i) : i \in Args} |->
        [address |-> 50 + m + actual_args[0].address,
         gpu_object_ptr |-> IF actual_args[0].gpu_object_ptr = 0 THEN 0
                            ELSE 150 + m + actual_args[0].address]]

\* esf_args of the local domains: the placeholder indices of a stage
EsfArgLists == UNION {[1 .. n -> Args] : n \in 1 .. MaxEsfArgs}

\* assign_storage_pointers::operator()(ze): the value assigned to the local
\* pointer zipped with the placeholder of the given index
assign_storage_pointers(cuda, arg_list_, index) ==
    IF cuda THEN arg_list_[index].gpu_object_ptr
    ELSE arg_list_[index].address

\* assign_fusion_maps::operator()(local_): the local meta data pointer of
\* a meta data type
assign_fusion_maps(cuda, actual, key) ==
    IF cuda THEN actual[key].gpu_object_ptr ELSE actual[key].address

\* local_domain_base::init taking the entry of actual_args_ at the position
\* of the placeholder in place of the entry at its index
init_by_position(l, actual_args_, actual_metadata_) ==
    [l EXCEPT
        !.m_local_args =
            [p \in 1 .. Len(l.esf_args) |->
                assign_storage_pointers(l.CUDACC, actual_args_, (p - 1) % NumArgs)],
        !.m_local_metadata =
            [p \in 1 .. Len(l.esf_args) |->
                assign_fusion_maps(l.CUDACC, actual_metadata_, MetaOf(l.esf_args[p]))]]

\* local_domain_base::init(actual_args_, actual_metadata_): the local
\* pointers zipped with the placeholders of the stage are assigned
init(l, actual_args_, actual_metadata_) ==
    [l EXCEPT
        !.m_local_args =
            [p \in 1 .. Len(l.esf_args) |->
                assign_storage_pointers(l.CUDACC, actual_args_, l.esf_args[p])],
        !.m_local_metadata =
            [p \in 1 .. Len(l.esf_args) |->
                assign_fusion_maps(l.CUDACC, actual_metadata_, MetaOf(l.esf_args[p]))]]

\* local_domain(): the pointers are not set by the constructor
local_domain(cuda, esf_args, garbage) ==
    [CUDACC |-> cuda, esf_args |-> esf_args,
     m_local_args |-> [p \in 1 .. Len(esf_args) |-> garbage],
     m_local_metadata |-> [p \in 1 .. Len(esf_args) |-> garbage]]

LocalInit ==
    \E cuda \in BOOLEAN, esf_args \in EsfArgLists, garbage \in 0 .. MaxUninit :
        ld = [dom |-> local_domain(cuda, esf_args, garbage),
              op |-> "local_domain", actual_args |-> <<>>, copy |-> <<>>]

LocalIdle == ld = "none"

\* local_domain::init(arg_list, meta_data_, i, j, k)
LocalDomainInit(arg_list_) ==
    /\ ld' = [ld EXCEPT !.dom = init(ld.dom, arg_list_, ActualMetaData(arg_list_)),
                        !.op = "init",
                        !.actual_args = arg_list_]

\* local_domain(local_domain const& other): the copy made for the device
LocalDomainCopy ==
    /\ ld.op # "copy"
    /\ ld' = [ld EXCEPT !.op = "copy", !.copy = ld.dom]

\* local_domain::info(): prints the local args
LocalDomainInfo ==
    /\ ld.op # "info"
    /\ ld' = [ld EXCEPT !.op = "info"]

LocalNext ==
    \/ \E arg_list_ \in ActualArgLists : LocalDomainInit(arg_list_)
    \/ LocalDomainCopy
    \/ LocalDomainInfo

----------------------------------------------------------------------------
(* Metafunctions: integer sequences (gt_integer_sequence.hpp) and cache     *)
(* sequences (define_caches); a sequence of template arguments is a tuple   *)

\* largest N passed to make_integer_sequence
MaxN == 6
\* largest length of the integer sequences handed to concat and apply
MaxSeqLen == 2
\* largest element of the integer sequences handed to concat and apply
MaxElem == 2
\* largest number of arguments of define_caches and cache
MaxCaches == 3

\* integer sequences of the model
IntegerSequences == UNION {[1 .. n -> 0 .. MaxElem] : n \in 0 .. MaxSeqLen}

\* concat without the shift of the second sequence
concat_unshifted(I1, I2) == I1 \o I2
\* concat shifting the second sequence by one
concat_shifted_by_one(I1, I2) == I1 \o [p \in 1 .. Len(I2) |-> 1 + I2[p]]

\* concat<integer_sequence<UInt, I1...>, integer_sequence<UInt, I2...> >:
\* integer_sequence<UInt, I1..., (sizeof...(I1) + I2)...>
concat(I1, I2) == I1 \o [p \in 1 .. Len(I2) |-> Len(I1) + I2[p]]

\* make_integer_sequence<UInt, N>: the specialisations for 0 and 1, and the
\* recursion on N/2 and N - N/2
RECURSIVE make_integer_sequence(_)
make_integer_sequence(N) ==
    IF N = 0 THEN <<>>
    ELSE IF N = 1 THEN <<0>>
    ELSE concat(make_integer_sequence(N \div 2), make_integer_sequence(N - N \div 2))

\* number of instantiations the recursion of make_integer_sequence<UInt, N>
\* goes through
RECURSIVE Instantiations(_)
Instantiations(N) ==
    IF N <= 1 THEN 1
    ELSE 1 + Instantiations(N \div 2) + Instantiations(N - N \div 2)

\* std::make_integer_sequence<UInt, N>, the alias under CXX14_ENABLED
std_make_integer_sequence(N) == [p \in 1 .. N |-> p - 1]

\* the functors handed to apply_integer_sequence
Lambdas == {"plus", "times", "index"}

\* Lambda<I>::apply(args...) and lambda(I, args...)
LambdaApply(lambda, I, args) ==
    CASE lambda = "plus" -> I + args
      [] lambda = "times" -> I * args
      [] lambda = "index" -> I

\* apply_integer_sequence::apply filling the container by position
apply_by_position(Indices, lambda, args) ==
    [p \in 1 .. Len(Indices) |-> LambdaApply(lambda, p - 1, args)]

\* apply_integer_sequence<integer_sequence<UInt, Indices...> >::apply:
\* Container(Lambda<Indices>::apply(args_...) ...), and the overload
\* Container(lambda(Indices, args_...) ...)
apply(Indices, lambda, args) ==
    [p \in 1 .. Len(Indices) |-> LambdaApply(lambda, Indices[p], args)]

\* scopes and policies of a cache, placeholders of the define_caches test
Scopes == {"IJ", "IJK", "K"}
Policies == {"fill", "flush", "local"}
CacheArgs == 0 .. 2

\* cache_impl with the scope and the policy exchanged
cache_impl_exchanged(scope, arg, policy) == [scope |-> policy, arg |-> arg, policy |-> scope]
\* cache_impl of the first placeholder whatever the placeholder
cache_impl_first_arg(scope, arg, policy) == [scope |-> scope, arg |-> 0, policy |-> policy]

\* detail::cache_impl<Scope, Arg, Policy>
cache_impl(scope, arg, policy) == [scope |-> scope, arg |-> arg, policy |-> policy]

\* cache<Scope, Policy>(args...): one cache_impl per placeholder
cache(scope, policy, args) ==
    [p \in 1 .. Len(args) |-> cache_impl(scope, args[p], policy)]

\* the sequences joined in the order of the list
RECURSIVE Flatten(_)
Flatten(seqs) == IF seqs = <<>> THEN <<>> ELSE Head(seqs) \o Flatten(Tail(seqs))

\* define_caches(caches...): the sequence of the descriptors of the arguments
define_caches(caches) == Flatten(caches)

\* declarations of one cache and lists of placeholders
CacheDeclarations == Scopes \X CacheArgs \X Policies
CacheArgLists == UNION {[1 .. n -> CacheArgs] : n \in 1 .. MaxCaches}

NoMeta == [op |-> "none", input |-> <<>>, result |-> <<>>]

MetaInit == meta = NoMeta
MetaIdle == meta = NoMeta

\* an instantiation of concat
Concat(I1, I2) ==
    /\ meta.op = "none"
    /\ meta' = [op |-> "concat", input |-> <<I1, I2>>, result |-> concat(I1, I2)]

\* an instantiation of make_integer_sequence, under C++11 and under C++14
MakeIntegerSequence(N) ==
    /\ meta.op = "none"
    /\ meta' = [op |-> "make_integer_sequence", input |-> <<N>>,
                result |-> [cxx11 |-> make_integer_sequence(N),
                            cxx14 |-> std_make_integer_sequence(N),
                            instantiations |-> Instantiations(N)]]

\* a call of apply_integer_sequence<...>::apply
ApplyIntegerSequence(Indices, lambda, args) ==
    /\ meta.op = "none"
    /\ meta' = [op |-> "apply", input |-> <<Indices, lambda, args>>,
                result |-> apply(Indices, lambda, args)]

\* a call of cache<Scope, Policy>(args...)
Cache(scope, policy, args) ==
    /\ meta.op = "none"
    /\ meta' = [op |-> "cache", input |-> <<scope, policy, args>>,
                result |-> cache(scope, policy, args)]

\* a call of define_caches on caches of one placeholder each
DefineCaches(decls) ==
    /\ meta.op = "none"
    /\ meta' = [op |-> "define_caches", input |-> decls,
                result |-> define_caches([p \in 1 .. Len(decls) |->
                              cache(decls[p][1], decls[p][3], <<decls[p][2]>>)])]

\* one instantiation per behaviour: the metafunctions have no state
MetaNext ==
    /\ meta.op = "none"
    /\ \/ \E I1, I2 \in IntegerSequences : Concat(I1, I2)
       \/ \E N \in 0 .. MaxN : MakeIntegerSequence(N)
       \/ \E Indices \in IntegerSequences, lambda \in Lambdas, args \in 0 .. MaxElem :
             ApplyIntegerSequence(Indices, lambda, args)
       \/ \E scope \in Scopes, policy \in Policies, args \in CacheArgLists :
             Cache(scope, policy, args)
       \/ \E n \in 0 .. MaxCaches : \E decls \in [1 .. n -> CacheDeclarations] :
             DefineCaches(decls)

----------------------------------------------------------------------------

----------------------------------------------------------------------------
(* iterate_domain_cuda: position of a thread relative to its block          *)

\* largest block size per direction
MaxBlockSize == 2
\* largest halo width of an extent, and largest offset of a query
MaxHalo == 1

BlockSizes == 1 .. MaxBlockSize
\* positions a thread of the block can hold: the block and its halo
Positions == (0 - MaxHalo) .. (MaxBlockSize - 1 + MaxHalo)
\* extents <iminus, iplus, jminus, jplus>
Extents == [iminus : (0 - MaxHalo) .. 0, iplus : 0 .. MaxHalo,
            jminus : (0 - MaxHalo) .. 0, jplus : 0 .. MaxHalo]
DomainOffsets == (0 - MaxHalo) .. MaxHalo

\* set_block_pos(ipos, jpos): the new m_thread_pos (coordinate 0 is index 1)
set_block_pos(ipos, jpos) == <<ipos, jpos>>

\* increment_impl<Coordinate>(steps): the new m_thread_pos
increment_impl(m_thread_pos, Coordinate, steps) ==
    [m_thread_pos EXCEPT ![Coordinate + 1] = m_thread_pos[Coordinate + 1] + steps]

\* is_thread_in_domain with the test on j left out
is_thread_in_domain_i_only(d, Extent) ==
    /\ d.m_thread_pos[1] >= Extent.iminus
    /\ d.m_thread_pos[1] < d.m_block_size_i + Extent.iplus

\* is_thread_in_domain<Extent>()
is_thread_in_domain(d, Extent) ==
    /\ d.m_thread_pos[1] >= Extent.iminus
    /\ d.m_thread_pos[1] < d.m_block_size_i + Extent.iplus
    /\ d.m_thread_pos[2] >= Extent.jminus
    /\ d.m_thread_pos[2] < d.m_block_size_j + Extent.jplus

\* is_thread_in_domain_x<minus, plus>(i_offset)
is_thread_in_domain_x(d, minus, plus, i_offset) ==
    /\ d.m_thread_pos[1] + i_offset >= minus
    /\ d.m_thread_pos[1] + i_offset < d.m_block_size_i + plus

\* is_thread_in_domain_y<minus, plus>(j_offset)
is_thread_in_domain_y(d, minus, plus, j_offset) ==
    /\ d.m_thread_pos[2] + j_offset >= minus
    /\ d.m_thread_pos[2] + j_offset < d.m_block_size_j + plus

NoQuery == [op |-> "none", minus |-> 0, plus |-> 0, jminus |-> 0, jplus |-> 0,
            offset |-> 0, result |-> FALSE]

\* the constructor stores the block sizes; m_thread_pos is not initialised
\* and holds any value until set_block_pos is called
DomainInit ==
    \E bi, bj \in BlockSizes, pi, pj \in Positions :
        itdom = [m_block_size_i |-> bi, m_block_size_j |-> bj,
               m_thread_pos |-> <<pi, pj>>, query |-> NoQuery]

DomainIdle == itdom = "none"

SetBlockPos(ipos, jpos) ==
    itdom' = [itdom EXCEPT !.m_thread_pos = set_block_pos(ipos, jpos)]

IncrementImpl(Coordinate, steps) ==
    /\ itdom.m_thread_pos[Coordinate + 1] + steps \in Positions
    /\ itdom' = [itdom EXCEPT !.m_thread_pos =
                  increment_impl(itdom.m_thread_pos, Coordinate, steps)]

IsThreadInDomain(Extent) ==
    itdom' = [itdom EXCEPT !.query =
               [op |-> "is_thread_in_domain",
                minus |-> Extent.iminus, plus |-> Extent.iplus,
                jminus |-> Extent.jminus, jplus |-> Extent.jplus,
                offset |-> 0, result |-> is_thread_in_domain(itdom, Extent)]]

IsThreadInDomainX(minus, plus, i_offset) ==
    itdom' = [itdom EXCEPT !.query =
               [op |-> "is_thread_in_domain_x", minus |-> minus, plus |-> plus,
                jminus |-> 0, jplus |-> 0, offset |-> i_offset,
                result |-> is_thread_in_domain_x(itdom, minus, plus, i_offset)]]

IsThreadInDomainY(minus, plus, j_offset) ==
    itdom' = [itdom EXCEPT !.query =
               [op |-> "is_thread_in_domain_y", minus |-> minus, plus |-> plus,
                jminus |-> 0, jplus |-> 0, offset |-> j_offset,
                result |-> is_thread_in_domain_y(itdom, minus, plus, j_offset)]]

\* the thread is positioned and moved, then one query is made: the queries
\* are const member functions
DomainNext ==
    /\ itdom.query.op = "none"
    /\ \/ \E ipos, jpos \in Positions : SetBlockPos(ipos, jpos)
       \/ \E Coordinate \in {0, 1}, steps \in {-1, 1} : IncrementImpl(Coordinate, steps)
       \/ \E Extent \in Extents : IsThreadInDomain(Extent)
       \/ \E minus \in (0 - MaxHalo) .. 0, plus \in 0 .. MaxHalo, o \in DomainOffsets :
             IsThreadInDomainX(minus, plus, o)
       \/ \E minus \in (0 - MaxHalo) .. 0, plus \in 0 .. MaxHalo, o \in DomainOffsets :
             IsThreadInDomainY(minus, plus, o)

----------------------------------------------------------------------------

----------------------------------------------------------------------------
(* once_per_block: an assignment made by the threads of a CUDA block        *)

\* the values assigned
AssignedValues == {1, 2}
\* the template argument Id: the threadIdx.x of a block of the largest size,
\* or the first value past it
ThreadIds == 0 .. MaxBlockSize

\* threads <<threadIdx.x, threadIdx.y>> of a block of shape <<x, y>>
BlockThreads(blockDim) == (0 .. blockDim[1] - 1) \X (0 .. blockDim[2] - 1)

\* the test of once_per_block<Id>::assign in the thread threadIdx
assigns(Id, threadIdx) == threadIdx[1] = Id

\* once_per_block<Id>::assign(l, r) in the thread threadIdx: the new l
assign(Id, threadIdx, l, r) == IF assigns(Id, threadIdx) THEN r ELSE l

\* a block of some shape is launched; l is shared by its threads
OnceInit ==
    \E x, y \in BlockSizes, Id \in ThreadIds, r \in AssignedValues :
        once = [blockDim |-> <<x, y>>, Id |-> Id, l |-> 0, r |-> r,
                called |-> {}, assigned |-> <<>>]

OnceIdle == once = "none"

\* thread t of the block calls once_per_block<Id>::assign(l, r)
Assign(t) ==
    /\ t \notin once.called
    /\ once' = [once EXCEPT
                  !.l = assign(once.Id, t, once.l, once.r),
                  !.called = once.called \cup {t},
                  !.assigned = IF assigns(once.Id, t)
                               THEN Append(once.assigned, t) ELSE once.assigned]

\* the threads of the block run concurrently
OnceNext == \E t \in BlockThreads(once.blockDim) : Assign(t)

----------------------------------------------------------------------------

----------------------------------------------------------------------------
(* python_run_tests.sh: the script that runs the two Python test suites     *)

\* largest exit status of a test suite
MaxStatus == 1

ExitStatuses == 0 .. MaxStatus
\* the two nosetests commands: tests.test_sw and tests.test_stencils
Suites == {1, 2}
\* values of the arguments $1 and $2 (empty when the argument is missing)
SourceDirs == {"", "src"}
InstallPrefixes == {"", " ", "venv"}
\* exit status of a command that is not found
NotFound == 127

RunningMsg == "Running Python tests ..."
OkMsg == "All Python tests OK"
ErrorMsg == "Error running Python tests. EXIT NOW"
VirtualenvMsg == "Error while activating virtualenv. EXIT NOW"

\* [ -n "${CMAKE_SOURCE_DIR}" ] && [ -n "${PYTHON_INSTALL_PREFIX}" ] and
\* [ "$PYTHON_INSTALL_PREFIX" != " " ]
uses_virtualenv(s) ==
    /\ s.CMAKE_SOURCE_DIR # ""
    /\ s.PYTHON_INSTALL_PREFIX # ""
    /\ s.PYTHON_INSTALL_PREFIX # " "

\* the test with -o in place of -a
tests_ok_either(one, two) == one = 0 \/ two = 0

\* [ ${TEST_ONE_STATUS} == 0 -a ${TEST_TWO_STATUS} == 0 ]
tests_ok(one, two) == one = 0 /\ two = 0

\* the script is started with its arguments, in an environment where `which
\* virtualenv` succeeds or fails
ScriptInit ==
    \E dir \in SourceDirs, prefix \in InstallPrefixes, found \in BOOLEAN :
        script = [pc |-> "activate",
                  CMAKE_SOURCE_DIR |-> dir, PYTHON_INSTALL_PREFIX |-> prefix,
                  virtualenv |-> found,
                  suite |-> [n \in Suites |-> [state |-> "idle", status |-> 0]],
                  ended |-> <<>>,
                  TEST_ONE_STATUS |-> 0, TEST_TWO_STATUS |-> 0,
                  out |-> <<>>, exit |-> 0]

ScriptIdle == script = "none"

\* activation of the virtual environment
Activate ==
    /\ script.pc = "activate"
    /\ IF uses_virtualenv(script) /\ ~script.virtualenv
       THEN script' = [script EXCEPT !.out = Append(script.out, VirtualenvMsg),
                                     !.pc = "exited", !.exit = 1]
       ELSE script' = [script EXCEPT !.pc = "launch"]

\* both suites are started in the background
Launch ==
    /\ script.pc = "launch"
    /\ script' = [script EXCEPT
                    !.out = Append(script.out, RunningMsg),
                    !.suite = [n \in Suites |-> [state |-> "running", status |-> 0]],
                    !.pc = "wait_one"]

\* suite n ends with some exit status, at any time after its start
SuiteExits(n, status) ==
    /\ script.suite[n].state = "running"
    /\ script' = [script EXCEPT
                    !.suite[n] = [state |-> "exited", status |-> status],
                    !.ended = Append(script.ended, n)]

\* wait "${TEST_ONE_PID}"; TEST_ONE_STATUS=$?
WaitOne ==
    /\ script.pc = "wait_one"
    /\ script.suite[1].state = "exited"
    /\ script' = [script EXCEPT !.TEST_ONE_STATUS = script.suite[1].status,
                                !.pc = "wait_two"]

\* wait "${TEST_TWO_PID}"; TEST_TWO_STATUS=$?
WaitTwo ==
    /\ script.pc = "wait_two"
    /\ script.suite[2].state = "exited"
    /\ script' = [script EXCEPT !.TEST_TWO_STATUS = script.suite[2].status,
                                !.pc = "check"]

\* the test of the two statuses and its two branches
CheckStatus ==
    /\ script.pc = "check"
    /\ IF tests_ok(script.TEST_ONE_STATUS, script.TEST_TWO_STATUS)
       THEN script' = [script EXCEPT
                         !.out = Append(script.out, OkMsg),
                         !.pc = IF script.PYTHON_INSTALL_PREFIX # ""
                                THEN "deactivate" ELSE "exited"]
       ELSE script' = [script EXCEPT !.out = Append(script.out, ErrorMsg),
                                     !.pc = "exited", !.exit = 1]

\* ${PYTHON_INSTALL_PREFIX}/bin/deactivate, the last command of the script:
\* its status is the status of the script
Deactivate(status) ==
    /\ script.pc = "deactivate"
    /\ script' = [script EXCEPT !.pc = "exited", !.exit = status]

ScriptNext ==
    \/ Activate
    \/ Launch
    \/ \E n \in Suites, status \in ExitStatuses : SuiteExits(n, status)
    \/ WaitOne
    \/ WaitTwo
    \/ CheckStatus
    \/ \E status \in {0, NotFound} : Deactivate(status)

----------------------------------------------------------------------------
(* Specifications *)

Init == TestInit /\ StorageIdle /\ CudaIdle /\ BlockIdle /\ LocalIdle /\ MetaIdle /\ DomainIdle /\ OnceIdle /\ ScriptIdle
Next == TestNext /\ UNCHANGED <<storageVars, cudaVars, blockVars, localVars, metaVars, domainVars, onceVars, scriptVars>>
Spec == Init /\ [][Next]_vars

\* run is a loop of the executor: every enabled step is eventually taken
FairSpec == Spec /\ WF_vars(Next)

StorageSpecInit == TestIdle /\ StorageInit /\ CudaIdle /\ BlockIdle /\ LocalIdle /\ MetaIdle /\ DomainIdle /\ OnceIdle /\ ScriptIdle
StorageSpecNext == StorageNext /\ UNCHANGED <<testVars, cudaVars, blockVars, localVars, metaVars, domainVars, onceVars, scriptVars>>
StorageSpec == StorageSpecInit /\ [][StorageSpecNext]_vars

CudaSpecInit == TestIdle /\ StorageIdle /\ CudaInit /\ BlockIdle /\ LocalIdle /\ MetaIdle /\ DomainIdle /\ OnceIdle /\ ScriptIdle
CudaSpecNext == CudaNext /\ UNCHANGED <<testVars, storageVars, blockVars, localVars, metaVars, domainVars, onceVars, scriptVars>>
CudaSpec == CudaSpecInit /\ [][CudaSpecNext]_vars

BlockSpecInit == TestIdle /\ StorageIdle /\ CudaIdle /\ BlockInit /\ LocalIdle /\ MetaIdle /\ DomainIdle /\ OnceIdle /\ ScriptIdle
BlockSpecNext == BlockNext /\ UNCHANGED <<testVars, storageVars, cudaVars, localVars, metaVars, domainVars, onceVars, scriptVars>>
BlockSpec == BlockSpecInit /\ [][BlockSpecNext]_vars

LocalSpecInit == TestIdle /\ StorageIdle /\ CudaIdle /\ BlockIdle /\ LocalInit /\ MetaIdle /\ DomainIdle /\ OnceIdle /\ ScriptIdle
LocalSpecNext == LocalNext /\ UNCHANGED <<testVars, storageVars, cudaVars, blockVars, metaVars, domainVars, onceVars, scriptVars>>
LocalSpec == LocalSpecInit /\ [][LocalSpecNext]_vars

MetaSpecInit == TestIdle /\ StorageIdle /\ CudaIdle /\ BlockIdle /\ LocalIdle /\ MetaInit /\ DomainIdle /\ OnceIdle /\ ScriptIdle
MetaSpecNext == MetaNext /\ UNCHANGED <<testVars, storageVars, cudaVars, blockVars, localVars, domainVars, onceVars, scriptVars>>
MetaSpec == MetaSpecInit /\ [][MetaSpecNext]_vars

DomainSpecInit == TestIdle /\ StorageIdle /\ CudaIdle /\ BlockIdle /\ LocalIdle /\ MetaIdle /\ DomainInit /\ OnceIdle /\ ScriptIdle
DomainSpecNext == DomainNext /\ UNCHANGED <<testVars, storageVars, cudaVars, blockVars, localVars, metaVars, onceVars, scriptVars>>
DomainSpec == DomainSpecInit /\ [][DomainSpecNext]_vars

OnceSpecInit == TestIdle /\ StorageIdle /\ CudaIdle /\ BlockIdle /\ LocalIdle /\ MetaIdle /\ DomainIdle /\ OnceInit /\ ScriptIdle
OnceSpecNext == OnceNext /\ UNCHANGED <<testVars, storageVars, cudaVars, blockVars, localVars, metaVars, domainVars, scriptVars>>
OnceSpec == OnceSpecInit /\ [][OnceSpecNext]_vars

ScriptSpecInit == TestIdle /\ StorageIdle /\ CudaIdle /\ BlockIdle /\ LocalIdle /\ MetaIdle /\ DomainIdle /\ OnceIdle /\ ScriptInit
ScriptSpecNext == ScriptNext /\ UNCHANGED <<testVars, storageVars, cudaVars, blockVars, localVars, metaVars, domainVars, onceVars>>
ScriptSpec == ScriptSpecInit /\ [][ScriptSpecNext]_vars

----------------------------------------------------------------------------
(* Properties of the tridiagonal solver example (Spec, FairSpec)            *)

\* the linear system the test sets up, per level k of every column
InputInf(k) == R(-1)
InputDiag(k) == R(3)
InputSup(k) == R(1)
InputRhs(k) == IF k = 0 THEN R(4) ELSE IF k = 5 THEN R(2) ELSE R(3)

\* columns and points of the problem of size d1 x d2 x d3
AllColumns == (0 .. d1 - 1) \X (0 .. d2 - 1)
AllPoints == (0 .. d1 - 1) \X (0 .. d2 - 1) \X (0 .. D3 - 1)
Stages == {"forward_thomas", "backward_thomas"}

\* row k of the system, evaluated on the field out of column c
Row(c, k) ==
    LET o(kk) == fields["out"][<<c[1], c[2], kk>>]
        lower == IF k = 0 THEN R(0) ELSE RMul(InputInf(k), o(k - 1))
        upper == IF k = D3 - 1 THEN R(0) ELSE RMul(InputSup(k), o(k + 1))
    IN RAdd(RAdd(lower, RMul(InputDiag(k), o(k))), upper)

\* C1: once ready, steady, run and finalize have completed, out solves the
\* tridiagonal system of the initial inf, diag, sup and rhs in every column,
\* in exact arithmetic, and for the input of the test out is 1 everywhere.
C1_OutSolvesSystem ==
    lifecycle = "Finalized" =>
        \A c \in AllColumns : \A k \in 0 .. D3 - 1 :
            /\ Row(c, k) = InputRhs(k)
            /\ fields["out"][<<c[1], c[2], k>>] = R(1)

C1_Witness ==
    /\ pc = "done"
    /\ result = "true"
    /\ d1 = 2
    /\ \A p \in AllPoints : fields["out"][p] = R(1) /\ fields["rhs"][p] # InputRhs(p[3])

LifecycleOrder ==
    { <<"None", "Uninitialized">>, <<"Uninitialized", "Ready">>,
      <<"Ready", "Steady">>, <<"Steady", "Running">>, <<"Running", "Finalized">> }

\* C2: the computation changes state only along Uninitialized -> Ready ->
\* Steady -> Running -> Finalized (after its construction), and a stage is
\* applied only while it is Running: never before steady has completed and
\* never after finalize.
C2_LifecycleInOrder ==
    [][ /\ lifecycle' # lifecycle => <<lifecycle, lifecycle'>> \in LifecycleOrder
        /\ applied' # applied =>
             /\ lifecycle = "Running"
             /\ lifecycle' = "Running"
             /\ Pos(pc) > Pos("steady") ]_vars

C2_Witness ==
    /\ pc = "done"
    /\ lifecycle = "Finalized"
    /\ \A s \in Stages : \A p \in AllPoints : Count(applied, s, p) = 1

\* C3: during run no application of forward_thomas (first multistage), at
\* any grid point, follows an application of backward_thomas (second
\* multistage) at any grid point.
C3_MultistagesInOrder ==
    [][ (\E p \in AllPoints :
            Count(applied', "forward_thomas", p) > Count(applied, "forward_thomas", p))
        => (\A p \in AllPoints : Count(applied, "backward_thomas", p) = 0) ]_vars

C3_Witness ==
    /\ pc = "run"
    /\ \A p \in AllPoints : Count(applied, "forward_thomas", p) = 1
    /\ \E p \in AllPoints : Count(applied, "backward_thomas", p) = 1
    /\ \E p \in AllPoints : Count(applied, "backward_thomas", p) = 0

\* C4: forward_thomas has run at level k of a column only if it has run at
\* level k-1 of that column, and backward_thomas has run at level k only if
\* it has run at level k+1, so the k-1 reads of the forward sweep and the
\* k+1 read of the backward sweep see updated values.
C4_LevelsInDeclaredOrder ==
    \A p \in AllPoints :
        /\ (Count(applied, "forward_thomas", p) > 0 /\ p[3] > 0)
              => Count(applied, "forward_thomas", <<p[1], p[2], p[3] - 1>>) > 0
        /\ (Count(applied, "backward_thomas", p) > 0 /\ p[3] < D3 - 1)
              => Count(applied, "backward_thomas", <<p[1], p[2], p[3] + 1>>) > 0

C4_Witness ==
    \E p \in AllPoints :
        /\ p[3] = 2
        /\ Count(applied, "forward_thomas", p) = 1
        /\ Count(applied, "backward_thomas", p) = 1
        /\ Count(applied, "backward_thomas", <<p[1], p[2], 1>>) = 0

\* the overload the intervals of the example assign to level k
ExpectedOverload(k) ==
    IF k = 0 THEN "x_first" ELSE IF k = D3 - 1 THEN "x_last" ELSE "x_internal"

\* C5: once the grid is set up, every level k of 0..d3-1 belongs to exactly
\* one of x_first, x_internal, x_last ({0}, {1..d3-2}, {d3-1}), and the Do
\* overload a stage has run at a point is the one of the point's level.
C5_OneOverloadPerLevel ==
    Pos(pc) >= Pos("make_computation") =>
        /\ \A k \in 0 .. D3 - 1 : Matching(grid, k) = {ExpectedOverload(k)}
        /\ \A sp \in DOMAIN overload : overload[sp] = ExpectedOverload(sp[2][3])

C5_Witness ==
    /\ pc = "finalize"
    /\ \A s \in Stages : \A p \in AllPoints :
          <<s, p>> \in DOMAIN overload /\ overload[<<s, p>>] = ExpectedOverload(p[3])

\* C6: run terminates, no stage is ever applied twice at a point, and when
\* run has returned each stage has been applied exactly once at every point
\* (i,j,k) with 0<=i<d1, 0<=j<d2, 0<=k<d3.
C6_RunCompletes ==
    /\ [](\A sp \in DOMAIN applied : applied[sp] <= 1)
    /\ [](Pos(pc) > Pos("run") =>
            \A s \in Stages : \A p \in AllPoints : Count(applied, s, p) = 1)
    /\ ((pc = "run") ~> (Pos(pc) > Pos("run")))

C6_Witness ==
    /\ pc = "finalize"
    /\ mss = NumMss + 1
    /\ d1 = 2
    /\ \A s \in Stages : \A p \in AllPoints : Count(applied, s, p) = 1

\* C9 as stated: no step after the construction of the grid writes the grid.
C9_GridImmutableAfterConstruction ==
    [][Pos(pc) > Pos("grid") => grid' = grid]_vars

\* C9, amended: once the test has set value_list[0] and value_list[1], no
\* step from make_computation up to and including finalize writes the grid.
C9_GridImmutableAfterSetup ==
    [][Pos(pc) >= Pos("make_computation") => grid' = grid]_vars

C9_Witness ==
    /\ pc = "done"
    /\ lifecycle = "Finalized"
    /\ grid = [di |-> grid_bounds(d1), dj |-> grid_bounds(d2), value_list |-> <<0, D3 - 1>>]

----------------------------------------------------------------------------
(* Properties of base_storage (StorageSpec)                                 *)

\* the coordinates of the last access are inside the dimensions
InBounds == acc.i < st.dims[1] /\ acc.j < st.dims[2] /\ acc.k < st.dims[3]

\* C7: operator()(i,j,k) returns an element only when 0<=i<d1, 0<=j<d2 and
\* 0<=k<d3, and an access with a coordinate outside its dimension trips an
\* assertion instead of reaching the buffer.
C7_OutOfBoundsAsserted ==
    acc.op = "operator()" =>
        /\ acc.outcome = "element" => InBounds
        /\ ~InBounds => acc.outcome \in {"asserted", "aborted"}

\* the linear index with every layout-ordered coordinate reduced modulo the
\* size of its own dimension
ToroidalIndex(s, i, j, k) ==
    s.m_strides[2] * (find(s.layout, 0, <<i, j, k>>) % find(s.layout, 0, s.dims))
    + s.m_strides[3] * (find(s.layout, 1, <<i, j, k>>) % find(s.layout, 1, s.dims))
    + (find(s.layout, 2, <<i, j, k>>) % find(s.layout, 2, s.dims))

\* C8: for a temporary storage _index(i,j,k) returns, its result is the
\* toroidal linear index, and the result is below size().
C8_TemporaryIndexWraps ==
    (acc.op = "_index" /\ st.IsTemporary) =>
        /\ acc.outcome = "returned"
        /\ acc.index = ToroidalIndex(st, acc.i, acc.j, acc.k)
        /\ acc.index < size(st)

----------------------------------------------------------------------------
(* Properties of iterate_domain_cuda (CudaSpec)                             *)

\* the field the accessor of the last read points to is read-only for all
\* stages, and the accessor is not in the bypass set
ReadonlyNotBypassed ==
    /\ cu.esf_args[rd.accessor + 1] \in cu.readonly_args_indices
    /\ rd.accessor \notin cu.bypass_caches_set

----------------------------------------------------------------------------
(* Further properties of the tridiagonal solver example (Spec)              *)

\* the fields as the test hands them to run
FieldsBeforeRun ==
    [n \in FieldNames |->
        [p \in Points(d1, d2) |->
            CASE n = "out" -> R(0)
              [] n = "inf" -> InputInf(p[3])
              [] n = "diag" -> InputDiag(p[3])
              [] n = "sup" -> InputSup(p[3])
              [] n = "rhs" -> InputRhs(p[3])
              [] n = "solution" -> R(1)]]

\* fields whose contents differ between F and G
Written(F, G) == {n \in FieldNames : F[n] # G[n]}

\* fields bound to the accessors the functors declare inout
InoutFields ==
    {Bound(domain, a) : a \in {b \in 0 .. Len(arg_list) - 1 : arg_list[b + 1] = "inout"}}

\* C13: each stage writes only fields bound to accessors it declares inout:
\* a step of forward_thomas changes only sup and rhs, a step of
\* backward_thomas changes only out, and after run inf and diag hold their
\* initial values at every grid point.
C13_StagesWriteOnlyInoutFields ==
    /\ [](pc \in {"finalize", "verify", "done"} =>
            /\ fields["inf"] = FieldsBeforeRun["inf"]
            /\ fields["diag"] = FieldsBeforeRun["diag"])
    /\ [][pc = "run" /\ mss \in 1 .. NumMss =>
            /\ Written(fields, fields') \subseteq InoutFields
            /\ multistages[mss].stage = "forward_thomas" =>
                  Written(fields, fields') \subseteq {"sup", "rhs"}
            /\ multistages[mss].stage = "backward_thomas" =>
                  Written(fields, fields') \subseteq {"out"}]_vars

C13_Witness ==
    /\ pc = "done"
    /\ fields["inf"][<<0, 0, 0>>] = R(-1)
    /\ fields["diag"][<<0, 0, 0>>] = R(3)
    /\ fields["sup"][<<0, 0, 0>>] = RDiv(R(1), R(3))
    /\ fields["rhs"][<<0, 0, 0>>] # R(4)
    /\ fields["out"][<<0, 0, 0>>] = R(1)

\* the fields with every element outside column c replaced
Scrambled(F, c) ==
    [n \in FieldNames |->
        [q \in DOMAIN F[n] |-> IF <<q[1], q[2]>> = c THEN F[n][q] ELSE NaN]]

\* the step applies a stage at the next level of column c: it changes no
\* element outside the column, and what it writes does not depend on the
\* elements outside the column
ColumnLocal(c) ==
    LET stage == multistages[mss].stage
        k == NthLevel(KLevels(grid), multistages[mss].execute, kpos[c])
        p == <<c[1], c[2], k>>
        G == Do(stage, overload'[<<stage, p>>], Scrambled(fields, c), domain, p)
    IN \A n \in FieldNames : \A q \in DOMAIN fields[n] :
          IF <<q[1], q[2]>> = c
          THEN fields'[n][q] = G[n][q]
          ELSE fields'[n][q] = fields[n][q]

\* C14: a Thomas stage applied at (i,j,k) reads and writes only elements of
\* column (i,j), and for every interleaving of the columns (the k order of
\* each column and the multistage order kept) out, sup and rhs end with the
\* contents of the sequential execution.
C14_InterleavingIndependent ==
    /\ [](pc = "run" /\ mss = 0 => fields = FieldsBeforeRun)
    /\ [](pc \in {"finalize", "verify", "done"} =>
            \A n \in {"out", "sup", "rhs"} :
                fields[n] = SequentialRun(FieldsBeforeRun, domain, grid, 1)[n])
    /\ [][\A c \in DOMAIN kpos :
            (c \in DOMAIN kpos' /\ kpos'[c] = kpos[c] + 1) => ColumnLocal(c)]_vars

C14_Witness ==
    /\ pc = "run"
    /\ mss = 2
    /\ \E b, c \in DOMAIN kpos : b # c /\ kpos[b] = 2 /\ kpos[c] = 4
    /\ \A n \in {"sup", "rhs"} :
          fields[n] = SequentialRun(FieldsBeforeRun, domain, grid, 1)[n]

----------------------------------------------------------------------------
(* Properties of the threads of a CUDA block (BlockSpec)                    *)

\* the position a read of a thread refers to
ReadPosition(t) ==
    <<thread[t].m_thread_pos[1] + thread[t].read.offsets[1],
      thread[t].m_thread_pos[2] + thread[t].read.offsets[2]>>

\* C11: no thread reads an element of a shared IJ cache through
\* get_cache_value_impl before every thread of the block has finished the
\* fill phase: no thread is past the barrier while a thread is filling, and
\* a read of the cache finds the element written.
C11_NoReadBeforeFillComplete ==
    \A t \in DOMAIN thread :
        /\ thread[t].pc \in {"compute", "done"} =>
              \A u \in DOMAIN thread : thread[u].pc # "fill"
        /\ thread[t].read.path = "ij_cache" =>
              /\ thread[t].read.filled = Threads
              /\ thread[t].read.value # Unfilled
              /\ thread[t].read.value = StageValue(thread[t].read.accessor, ReadPosition(t))

C11_Witness ==
    \E t \in DOMAIN thread :
        /\ thread[t].read.path = "ij_cache"
        /\ thread[t].read.offsets # <<0, 0>>
        /\ thread[t].read.value = StageValue(thread[t].read.accessor, ReadPosition(t))
        /\ \E u \in DOMAIN thread : u # t /\ thread[u].pc = "barrier"

\* C20: get_cache_value_impl reads the IJ cache, at the position of the
\* thread plus the offsets of the accessor, exactly when the accessor is not
\* in the bypass set; for an accessor in the bypass set it reads the memory
\* through the data pointer of the accessor and not the cache.
C20_CacheReadIffNotBypassed ==
    \A t \in DOMAIN thread :
        thread[t].read.path # "none" =>
            /\ thread[t].read.path = "ij_cache" <=>
                  thread[t].read.accessor \notin blk.bypass_caches_set
            /\ thread[t].read.accessor \notin blk.bypass_caches_set =>
                  thread[t].read.value =
                      shared.ij_cache[thread[t].read.accessor][ReadPosition(t)]
            /\ thread[t].read.accessor \in blk.bypass_caches_set =>
                  /\ thread[t].read.path \in {"gmem", "ldg"}
                  /\ thread[t].read.value =
                        blk.memory[get_data_pointer(thread[t].read.accessor)
                                   + PointerOffset(ReadPosition(t))]

C20_Witness ==
    \E t, u \in DOMAIN thread :
        /\ thread[t].read.path = "ij_cache"
        /\ thread[t].read.value > 0
        /\ thread[u].read.path = "gmem"
        /\ thread[u].read.accessor \in blk.bypass_caches_set
        /\ thread[u].read.offsets # <<0, 0>>
        /\ thread[u].read.value < 0

----------------------------------------------------------------------------
(* Properties of local_domain (LocalSpec)                                   *)

\* the pointer init assigns at position p for the arguments of the last init
ExpectedPointer(p) ==
    IF ld.dom.CUDACC
    THEN ld.actual_args[ld.dom.esf_args[p]].gpu_object_ptr
    ELSE ld.actual_args[ld.dom.esf_args[p]].address

\* C12: after init(actual_args, metadata) the local storage pointer at every
\* position p equals the entry of actual_args at the index of the
\* placeholder at p (its gpu_object_ptr on CUDA), and no operation of the
\* local domain other than init changes the pointers.
C12_LocalPointersBound ==
    /\ [](ld.actual_args # <<>> =>
            /\ Len(ld.dom.m_local_args) = Len(ld.dom.esf_args)
            /\ \A p \in 1 .. Len(ld.dom.esf_args) :
                  ld.dom.m_local_args[p] = ExpectedPointer(p))
    /\ [][ld'.op # "init" => ld'.dom = ld.dom]_vars

C12_Witness ==
    /\ ld.op = "info"
    /\ ld.actual_args # <<>>
    /\ ld.dom.CUDACC
    /\ Len(ld.dom.esf_args) = 2
    /\ ld.dom.esf_args[1] = 1
    /\ ld.dom.esf_args[2] = 0
    /\ ld.dom.m_local_args[1] = ld.actual_args[1].gpu_object_ptr
    /\ ld.dom.m_local_args[1] # 0
    /\ ld.dom.m_local_args[1] # ld.dom.m_local_args[2]
    /\ ld.copy = ld.dom

----------------------------------------------------------------------------
(* Properties of the metafunctions (MetaSpec)                               *)

\* C15: define_caches applied to n cache declarations returns exactly n
\* cache descriptors in the order of the arguments, each with the scope,
\* placeholder and policy of its declaration.
C15_DefineCachesKeepsOrder ==
    meta.op = "define_caches" =>
        /\ Len(meta.result) = Len(meta.input)
        /\ \A p \in 1 .. Len(meta.input) :
              /\ meta.result[p].scope = meta.input[p][1]
              /\ meta.result[p].arg = meta.input[p][2]
              /\ meta.result[p].policy = meta.input[p][3]

C15_Witness ==
    /\ meta.op = "define_caches"
    /\ meta.input = << <<"IJ", 0, "fill">>, <<"IJK", 1, "flush">>, <<"K", 2, "local">> >>
    /\ meta.result = << cache_impl("IJ", 0, "fill"), cache_impl("IJK", 1, "flush"),
                        cache_impl("K", 2, "local") >>

\* C16: cache<Scope, Policy>(a0, ..., an-1) returns one cache descriptor per
\* placeholder, in argument order, each with the same Scope and Policy.
C16_CachePerPlaceholder ==
    meta.op = "cache" =>
        /\ Len(meta.result) = Len(meta.input[3])
        /\ \A p \in 1 .. Len(meta.input[3]) :
              /\ meta.result[p].arg = meta.input[3][p]
              /\ meta.result[p].scope = meta.input[1]
              /\ meta.result[p].policy = meta.input[2]

C16_Witness ==
    /\ meta.op = "cache"
    /\ meta.input = <<"IJ", "fill", <<0, 1, 2>> >>
    /\ meta.result = << cache_impl("IJ", 0, "fill"), cache_impl("IJ", 1, "fill"),
                        cache_impl("IJ", 2, "fill") >>

\* C17: for every N the recursion of make_integer_sequence<UInt, N> ends and
\* yields 0, 1, ..., N-1 in ascending order, N elements without repetition,
\* the sequence std::make_integer_sequence<UInt, N> yields under C++14.
C17_MakeIntegerSequenceIsIota ==
    meta.op = "make_integer_sequence" =>
        /\ meta.result.instantiations <= 2 * meta.input[1] + 1
        /\ Len(meta.result.cxx11) = meta.input[1]
        /\ \A p \in 1 .. meta.input[1] : meta.result.cxx11[p] = p - 1
        /\ \A p, q \in 1 .. Len(meta.result.cxx11) :
              p < q => meta.result.cxx11[p] < meta.result.cxx11[q]
        /\ meta.result.cxx11 = meta.result.cxx14

C17_Witness ==
    /\ meta.op = "make_integer_sequence"
    /\ meta.input = <<5>>
    /\ meta.result.cxx11 = <<0, 1, 2, 3, 4>>
    /\ meta.result.instantiations = 9

C19_ApplyFillsByIndex ==
    meta.op = "apply" =>
        /\ Len(meta.result) = Len(meta.input[1])
        /\ \A p \in 1 .. Len(meta.input[1]) :
              meta.result[p] = LambdaApply(meta.input[2], meta.input[1][p], meta.input[3])

C19_Witness ==
    /\ meta.op = "apply"
    /\ meta.input = << <<2, 0>>, "plus", 1 >>
    /\ meta.result = <<3, 1>>

----------------------------------------------------------------------------
(* Properties of the thread position tests (DomainSpec)                     *)

\* lo <= x < hi
Within(x, lo, hi) == x \in lo .. (hi - 1)

\* C21: is_thread_in_domain<Extent>() is true exactly when
\* iminus <= pos_i < block_size_i + iplus and
\* jminus <= pos_j < block_size_j + jplus; it always equals
\* is_thread_in_domain_x<iminus, iplus>(0) && is_thread_in_domain_y<jminus, jplus>(0),
\* and is_thread_in_domain_x<minus, plus>(o) is the test on i at pos_i + o.
C21_ThreadInDomain ==
    LET q == itdom.query
        pos_i == itdom.m_thread_pos[1]
        pos_j == itdom.m_thread_pos[2]
    IN /\ q.op = "is_thread_in_domain" =>
            /\ q.result <=>
                  /\ Within(pos_i, q.minus, itdom.m_block_size_i + q.plus)
                  /\ Within(pos_j, q.jminus, itdom.m_block_size_j + q.jplus)
            /\ q.result <=>
                  /\ is_thread_in_domain_x(itdom, q.minus, q.plus, 0)
                  /\ is_thread_in_domain_y(itdom, q.jminus, q.jplus, 0)
       /\ q.op = "is_thread_in_domain_x" =>
            (q.result <=>
                Within(pos_i + q.offset, q.minus, itdom.m_block_size_i + q.plus))

\* a thread in the halo of the block on i and past the block on j is asked,
\* and is inside the extent
C21_Witness ==
    /\ itdom.query.op = "is_thread_in_domain"
    /\ itdom.query.result
    /\ itdom.m_thread_pos[1] < 0
    /\ itdom.m_thread_pos[2] >= itdom.m_block_size_j

----------------------------------------------------------------------------
(* Properties of once_per_block (OnceSpec)                                  *)

\* every thread of the block has called assign
AllCalled == once.called = BlockThreads(once.blockDim)

\* C22: on CUDA, when every thread of a block has called
\* once_per_block<Id>::assign(l, r), the assignment l = r has been performed
\* exactly once in the block, by the thread with the given Id, whatever the
\* 2D shape of the block.
C22_AssignedOncePerBlock ==
    (AllCalled /\ once.Id < once.blockDim[1]) =>
        /\ Len(once.assigned) = 1
        /\ once.assigned[1][1] = once.Id

----------------------------------------------------------------------------
(* Properties of the linear index of base_storage (StorageSpec)             *)

\* the coordinates inside the dimensions of the storage
PointsOf(s) ==
    (0 .. s.dims[1] - 1) \X (0 .. s.dims[2] - 1) \X (0 .. s.dims[3] - 1)

\* the value _index returns for a point of a non-temporary storage
IndexAt(s, p) == (CHOOSE o \in _index(s, p[1], p[2], p[3]) : TRUE).index

\* C23: for a non-temporary base_storage of dimensions (d1, d2, d3) and any
\* layout permutation, size() is d1*d2*d3 and _index maps the in-range
\* coordinates one-to-one onto 0 .. d1*d2*d3 - 1.
C23_IndexIsBijection ==
    ~st.IsTemporary =>
        /\ size(st) = st.dims[1] * st.dims[2] * st.dims[3]
        /\ \A p \in PointsOf(st) : IndexAt(st, p) \in 0 .. size(st) - 1
        /\ \A p, q \in PointsOf(st) : p # q => IndexAt(st, p) # IndexAt(st, q)

----------------------------------------------------------------------------
(* Properties of the test-runner script (ScriptSpec)                        *)

Printed(msg) == \E n \in 1 .. Len(script.out) : script.out[n] = msg

BothEnded == \A n \in Suites : script.suite[n].state = "exited"
BothPassed == BothEnded /\ \A n \in Suites : script.suite[n].status = 0

\* C24: the script starts the two suites concurrently and waits for both,
\* in whichever order they end; it prints "All Python tests OK" if and only
\* if both suites exited with status 0, otherwise it prints the error
\* message and exits with status 1; it never reports success when a suite
\* failed.
C24_SuccessIffBothSuitesPass ==
    /\ script.pc \in {"wait_one", "wait_two"} =>
          \A n \in Suites : script.suite[n].state # "idle"
    /\ (Printed(OkMsg) \/ Printed(ErrorMsg)) => BothEnded
    /\ Printed(OkMsg) => BothPassed
    /\ Printed(ErrorMsg) => (~BothPassed /\ script.pc = "exited" /\ script.exit = 1)
    /\ (script.pc = "exited" /\ Printed(RunningMsg)) =>
          /\ Printed(OkMsg) <=> BothPassed
          /\ ~Printed(OkMsg) => Printed(ErrorMsg)

\* the second suite failed and ended first, the first one passed afterwards:
\* the script reported the error and exited with status 1
C24_Witness ==
    /\ script.pc = "exited"
    /\ script.ended = <<2, 1>>
    /\ script.suite[1].status = 0
    /\ script.suite[2].status # 0
    /\ Printed(ErrorMsg)
    /\ script.exit = 1

----------------------------------------------------------------------------
(* Vertical levels accessed by the stages of the solver (Spec)              *)

\* the applications of a stage made by the step: <<stage, point>>
AppliedByStep ==
    {key \in DOMAIN applied' :
        Count(applied', key[1], key[2]) > Count(applied, key[1], key[2])}

\* no element of a field holds the result of a read outside a storage
NoOutsideRead(F) == \A n \in FieldNames : \A q \in DOMAIN F[n] : F[n][q] # NaN

\* C25: during run no stage reads or writes a vertical level outside
\* 0 .. d3-1: the k-1 reads of forward_thomas are never made at k = 0 and the
\* k+1 read of backward_thomas is never made at k = d3-1.
C25_LevelsInRange ==
    [][\A key \in AppliedByStep :
          LET k == key[2][3]
          IN /\ k \in 0 .. D3 - 1
             /\ \A dk \in ReadOffsets(key[1], overload'[key]) : k + dk \in 0 .. D3 - 1
             /\ NoOutsideRead(fields')]_vars

\* run has returned: forward_thomas ran its x_first overload at level 0 and
\* its shared kernel above, backward_thomas its x_last overload at level
\* d3-1 and its shared kernel below
C25_Witness ==
    /\ pc = "finalize"
    /\ overload[<<"forward_thomas", <<0, 0, 0>>>>] = "x_first"
    /\ -1 \in ReadOffsets("forward_thomas", overload[<<"forward_thomas", <<0, 0, 1>>>>])
    /\ overload[<<"backward_thomas", <<0, 0, D3 - 1>>>>] = "x_last"
    /\ 1 \in ReadOffsets("backward_thomas", overload[<<"backward_thomas", <<0, 0, D3 - 2>>>>])
    /\ NoOutsideRead(fields)

====
